---------------------------- MODULE Spec2Model ----------------------------
(***************************************************************************)
(* The request/response auditing pipeline of pkg/apiserver/auditing        *)
(* (types.go): the level policy, the event builder (LogRequestObject,      *)
(* LogResponseObject), the response capture and the bounded delivery queue *)
(* (cacheEvent), together with the request life cycle that drives them and *)
(* the backend that drains the queue.                                      *)
(*                                                                         *)
(* A worker is one request-serving goroutine and serves one request.  An   *)
(* optional value (a Go pointer that may be nil, a lookup that may fail)   *)
(* is a sequence of length 0 (nil) or 1.                                   *)
(***************************************************************************)
EXTENDS Integers, Sequences, FiniteSets, TLC

(***************************************************************************)
(* Bounds of the model.                                                    *)
(***************************************************************************)
\* Request-serving goroutines.
NumWorkers == 3
\* Slots of the cache channel (DefaultCacheCapacity is 10000 in types.go:52).
DefaultCacheCapacity == 2
\* Clock ticks that make up CacheTimeout (time.Second in types.go:53).
CacheTimeout == 2
\* Calls a handler makes on its response writer.
MaxCalls == 2
\* Projects the registry's List answers.
MaxProjects == 2
\* The most HelmRepos the reposGetter holds.
MaxRepos == 2

Workers == 1..NumWorkers

Nil == <<>>
Some(x) == <<x>>

Min(a, b) == IF a < b THEN a ELSE b
SetMax(S) == CHOOSE x \in S : \A y \in S : y <= x

(***************************************************************************)
(* Level policy: types.go:82-106.                                          *)
(***************************************************************************)
LevelNone == "None"
LevelMetadata == "Metadata"
LevelRequest == "Request"
LevelRequestResponse == "RequestResponse"
\* Spec.AuditLevel is a free string of the Webhook object: "Other" stands for
\* every value that is none of the four levels.
Levels == {LevelNone, LevelMetadata, LevelRequest, LevelRequestResponse, "Other"}

\* The webhook lister's answer for DefaultWebhook: Nil when the lookup fails.
Webhooks == [AuditLevel : Levels, K8sAuditingEnabled : BOOLEAN]
WebhookStore == {Nil} \cup {Some(wh) : wh \in Webhooks}

VARIABLES
  webhook,      \* what webhookLister.Get(DefaultWebhook) answers
  devops,       \* what devopsGetter.List answers
  req,          \* per worker: the request and its RequestInfo
  body,         \* per worker: req.Body, the stream a reader consumes
  pc,           \* per worker: where the request is in its life cycle
  ev,           \* per worker: the *Event of the request (Nil: nil)
  resp,         \* per worker: the ResponseCapture
  sink,         \* per worker: the wrapped http.ResponseWriter
  calls,        \* per worker: calls the handler made on its writer
  ret,          \* per worker: the handler's last call on its writer and what it returned
  downstream,   \* per worker: what the handler read from req.Body
  waited,       \* per worker: ticks spent blocked in cacheEvent's select
  outcome,      \* per worker: how cacheEvent ended
  cache,        \* the cache channel's buffer
  klog,         \* the AuditIDs logged by cacheEvent's timeout branch
  aliased,      \* per worker: the pointer sent on the channel points at ev[w] itself
  delivered,    \* the AuditIDs the backend took from the channel
  stopCh,       \* the shutdown signal is closed
  backendUp,    \* the backend's consumer is running
  clusterResourceGetters,     \* ResourceGetter: the GroupVersionResources with a cluster-scoped getter
  namespacedResourceGetters,  \* ResourceGetter: those with a namespaced getter
  lookup,       \* the last Get or List on the ResourceGetter and how it ended
  helmRepos,    \* repoOperator: the HelmRepos its reposGetter holds, by id
  getterCopies, \* repoOperator: the reposGetter hands out copies, not its own objects
  repoResult    \* the last DescribeRepo or ListRepos and how it ended

requestVars == <<webhook, devops, req>>
workerVars == <<body, pc, ev, resp, sink, calls, ret, downstream, waited, outcome>>
queueVars == <<cache, klog, aliased>>
backendVars == <<delivered, stopCh, backendUp>>
resourceVars == <<clusterResourceGetters, namespacedResourceGetters, lookup>>
repoVars == <<helmRepos, getterCopies, repoResult>>
vars == <<requestVars, workerVars, queueVars, backendVars, resourceVars, repoVars>>

\* audit.ordLevel, behind Level.Less and Level.GreaterOrEqual.
ordLevel(l) ==
  CASE l = LevelMetadata -> 1
    [] l = LevelRequest -> 2
    [] l = LevelRequestResponse -> 3
    [] OTHER -> 0

Less(a, b) == ordLevel(a) < ordLevel(b)
GreaterOrEqual(a, b) == ordLevel(a) >= ordLevel(b)

getAuditLevelDefaultMetadata ==
  IF webhook = Nil THEN LevelMetadata ELSE webhook[1].AuditLevel
getAuditLevel ==
  IF webhook = Nil THEN LevelNone ELSE webhook[1].AuditLevel

EnabledAtNone == ~Less(getAuditLevel, LevelNone)
Enabled == ~Less(getAuditLevel, LevelMetadata)

K8sAuditingEnabled ==
  IF webhook = Nil THEN FALSE ELSE webhook[1].K8sAuditingEnabled

(***************************************************************************)
(* Requests.  A record holds what LogRequestObject reads of the            *)
(* http.Request and of its RequestInfo.  A body is a sequence of tokens,   *)
(* <<key, value>>; a stream over it may fail at an offset.                 *)
(***************************************************************************)
LBrace == <<"{", "">>
RBrace == <<"}", "">>
UserActive == "Active"
UserDisabled == "Disabled"
NoError == -1

Verbs == {"get", "create", "update"}
Resources == {"users", "pods"}
Names == {"", "bob"}

\* Bodies: empty, objects with and without a name or a state, a truncated
\* object and a body that is no JSON at all.
Bodies ==
  { <<>>,
    <<LBrace, RBrace>>,
    <<LBrace, <<"name", "alice">>, RBrace>>,
    <<LBrace, <<"name", "">>, RBrace>>,
    <<LBrace, <<"state", UserActive>>, RBrace>>,
    <<LBrace, <<"state", UserDisabled>>, RBrace>>,
    <<LBrace, <<"state", "Pending">>, RBrace>>,
    <<LBrace, <<"name", "alice">>>>,
    <<<<"junk", "">>>> }

\* A project of the registry: devopsv1alpha3.DevOpsProject, as far as read.
Projects ==
  [Name : {"p1", "p2", "p3"}, AdminNamespace : {"", "p1", "ns1"}, Workspace : {"ws1", "ws2"}]

\* io.ReadAll on a stream: what was read, whether it ended in an error, and
\* the stream afterwards.  A failed stream keeps failing at the same offset.
ReadAll(b) ==
  IF b.failAt # NoError /\ b.failAt >= b.pos
  THEN [data |-> SubSeq(b.data, b.pos + 1, b.failAt), err |-> TRUE,
        stream |-> [b EXCEPT !.pos = b.failAt, !.reads = @ + 1]]
  ELSE [data |-> SubSeq(b.data, b.pos + 1, Len(b.data)), err |-> FALSE,
        stream |-> [b EXCEPT !.pos = Len(b.data), !.reads = @ + 1]]

\* io.NopCloser(bytes.NewBuffer(body)): a fresh stream that cannot fail.
NewBuffer(data) == [data |-> data, pos |-> 0, failAt |-> NoError, orig |-> FALSE, reads |-> 0]

\* encoding/json on a body: an object is a brace, known fields, a brace.
ValidJSON(b) ==
  /\ Len(b) >= 2
  /\ b[1] = LBrace
  /\ b[Len(b)] = RBrace
  /\ \A i \in 2..(Len(b) - 1) : b[i][1] \in {"name", "state"}

\* The value of field k: the last one given wins, absent is the zero value.
Field(b, k) ==
  LET at == {i \in 2..(Len(b) - 1) : b[i][1] = k}
  IN  IF at = {} THEN "" ELSE b[SetMax(at)][2]

\* json.Unmarshal(body, &auditv1alpha1.Object{}).
DecodeObject(b) == [ok |-> ValidJSON(b), Name |-> IF ValidJSON(b) THEN Field(b, "name") ELSE ""]

\* json.Unmarshal(body, &v1alpha2.User{}).
DecodeUser(b) == [ok |-> ValidJSON(b), State |-> IF ValidJSON(b) THEN Field(b, "state") ELSE ""]

(***************************************************************************)
(* Event builder: types.go:119-248.                                        *)
(***************************************************************************)
\* The dryRun test of types.go:122-127.
IsDryRunNever(r) == FALSE
IsDryRun(r) == r.IsKubernetesRequest /\ r.dryRun

\* The Event literal of types.go:129-154; the AuditID is fresh per request.
NewEvent(w, r, level) ==
  [ Devops |-> r.DevOps,
    Workspace |-> r.Workspace,
    Verb |-> r.Verb,
    Level |-> level,
    AuditID |-> w,
    Stage |-> "ResponseComplete",
    ObjectRef |-> [Resource |-> r.Resource, Name |-> r.Name],
    RequestObject |-> Nil,
    StageTimestamp |-> 0,
    ResponseStatus |-> Nil,
    ResponseObject |-> Nil ]

\* The loop of types.go:163-172 over res.Items, in the order of the list.
RECURSIVE EnrichLoop(_, _)
EnrichLoop(e, items) ==
  IF items = <<>> THEN e
  ELSE LET d == Head(items)
           e1 == IF d.Name = e.Devops
                 THEN [e EXCEPT !.Workspace = d.Workspace]
                 ELSE IF d.AdminNamespace = e.Devops
                      THEN [e EXCEPT !.Workspace = d.Workspace, !.Devops = d.Name]
                      ELSE e
       IN  EnrichLoop(e1, Tail(items))

\* types.go:157: the registry is consulted at all.
NeedWorkspace(e) == Len(e.Devops) > 0 /\ Len(e.Workspace) = 0

\* The gate without its content-length test.
needAnalyzeRequestBodyAnyLength(e, r) ==
  \/ GreaterOrEqual(e.Level, LevelRequest)
  \/ e.Verb = "create"
  \/ e.ObjectRef.Resource = "users" /\ e.Verb = "update"
needAnalyzeRequestBody(e, r) ==
  IF r.ContentLength <= 0 THEN FALSE
  ELSE IF GreaterOrEqual(e.Level, LevelRequest) THEN TRUE
  ELSE IF e.Verb = "create" THEN TRUE
  ELSE IF e.ObjectRef.Resource = "users" /\ e.Verb = "update" THEN TRUE
  ELSE FALSE

\* types.go:200-202.
SnapshotRequestAlways(e, data) == [e EXCEPT !.RequestObject = Some(data)]
SnapshotRequest(e, data) ==
  IF GreaterOrEqual(e.Level, LevelRequest)
  THEN [e EXCEPT !.RequestObject = Some(data)]
  ELSE e

\* The decoded name taken whether or not the body decoded.
NameFromBodyIgnoresErr(e, r, data) ==
  IF r.Verb = "create"
  THEN [e EXCEPT !.ObjectRef.Name = DecodeObject(data).Name]
  ELSE e
\* The body's name taken only when the path gave none.
NameFromBodyIfUnnamed(e, r, data) ==
  IF r.Verb = "create" /\ e.ObjectRef.Name = "" /\ DecodeObject(data).ok
  THEN [e EXCEPT !.ObjectRef.Name = DecodeObject(data).Name]
  ELSE e
\* types.go:204-210.
NameFromBody(e, r, data) ==
  IF r.Verb = "create" /\ DecodeObject(data).ok
  THEN [e EXCEPT !.ObjectRef.Name = DecodeObject(data).Name]
  ELSE e

\* The relabelling of an update of any resource.
RelabelVerbAnyResource(e, data) ==
  IF e.Verb = "update" /\ DecodeUser(data).ok
  THEN IF DecodeUser(data).State = UserActive THEN [e EXCEPT !.Verb = "enable"]
       ELSE IF DecodeUser(data).State = UserDisabled THEN [e EXCEPT !.Verb = "disable"]
       ELSE e
  ELSE e
\* types.go:212-222.
RelabelVerb(e, data) ==
  IF e.ObjectRef.Resource = "users" /\ e.Verb = "update" /\ DecodeUser(data).ok
  THEN IF DecodeUser(data).State = UserActive THEN [e EXCEPT !.Verb = "enable"]
       ELSE IF DecodeUser(data).State = UserDisabled THEN [e EXCEPT !.Verb = "disable"]
       ELSE e
  ELSE e

\* types.go:191-223 on the event e and the stream b: the event returned and
\* the stream left in req.Body.
AnalyzeRequestBody(e, r, b) ==
  IF ~needAnalyzeRequestBody(e, r) THEN [e |-> e, stream |-> b]
  ELSE LET rd == ReadAll(b)
       IN  IF rd.err THEN [e |-> e, stream |-> rd.stream]
           ELSE [e |-> RelabelVerb(NameFromBody(SnapshotRequest(e, rd.data), r, rd.data), rd.data),
                 stream |-> NewBuffer(rd.data)]

\* LogRequestObject, types.go:119-226, for worker w's request r, the level the
\* lister gives, the registry's answer reg and the stream b.  The result says
\* whether the call panicked, and otherwise holds the event (Nil: nil) and the
\* stream left in req.Body.  A failed List leaves res nil when reg.res is Nil,
\* and ranging over res.Items then dereferences nil.
LogRequestObjectResult(w, r, level, reg, b) ==
  IF IsDryRun(r) THEN [panic |-> FALSE, e |-> Nil, stream |-> b]
  ELSE LET e0 == NewEvent(w, r, level)
       IN  IF NeedWorkspace(e0) /\ reg.res = Nil
           THEN [panic |-> TRUE, e |-> Nil, stream |-> b]
           ELSE LET e1 == IF NeedWorkspace(e0) THEN EnrichLoop(e0, reg.res[1]) ELSE e0
                    an == AnalyzeRequestBody(e1, r, b)
                IN  [panic |-> FALSE, e |-> Some(an.e), stream |-> an.stream]

\* LogResponseObject's assignments, types.go:252-256, on the event e and the
\* capture c (StageTimestamp 1: set to now).
FinalizeRequestLevel(e, c) ==
  [e EXCEPT !.StageTimestamp = 1,
            !.ResponseStatus = Some(c.status),
            !.ResponseObject = IF GreaterOrEqual(e.Level, LevelRequest)
                               THEN Some(c.body) ELSE @]
Finalize(e, c) ==
  [e EXCEPT !.StageTimestamp = 1,
            !.ResponseStatus = Some(c.status),
            !.ResponseObject = IF GreaterOrEqual(e.Level, LevelRequestResponse)
                               THEN Some(c.body) ELSE @]

(***************************************************************************)
(* Response capture: types.go:272-312.                                     *)
(***************************************************************************)
StatusOK == 200
Codes == {StatusOK, 404}
Chunks == {<<"r1">>, <<"r2">>}

\* NewResponseCapture and the writer it wraps, before any call.  The writer
\* implements http.Hijacker and http.CloseNotifier or not, and its Write fails
\* from its failAfter-th call on (NoError: never).  writes, results, headers and
\* delegated are the calls it received and what it answered, trace the order
\* of its WriteHeader and Write calls; bytes is what it accepted.
NewResponseCapture == [wroteHeader |-> FALSE, status |-> 0, body |-> <<>>]
SinkWith(h, cn, f) ==
  [ headers |-> <<>>, writes |-> <<>>, bytes |-> <<>>, results |-> <<>>,
    trace |-> <<>>, delegated |-> <<>>, hijacker |-> h, closeNotifier |-> cn, failAfter |-> f ]
NewSink == SinkWith(TRUE, TRUE, NoError)
Sinks == { SinkWith(h, cn, f) : h \in BOOLEAN, cn \in BOOLEAN, f \in {NoError, 0, 1} }

\* c.ResponseWriter.Write(data): the writer afterwards and the (n, err) it returns.
SinkWrite(s, data) ==
  LET ok == s.failAfter = NoError \/ Len(s.writes) < s.failAfter
      res == [n |-> IF ok THEN Len(data) ELSE 0, err |-> ~ok]
  IN  [ s |-> [s EXCEPT !.writes = Append(@, data),
                        !.trace = Append(@, "Write"),
                        !.bytes = IF ok THEN @ \o data ELSE @,
                        !.results = Append(@, res)],
        n |-> res.n, err |-> res.err ]

\* WriteHeader that commits every code it is given.
WriteHeaderOpEveryCall(c, s, code) ==
  [c |-> [c EXCEPT !.status = code, !.wroteHeader = TRUE],
   s |-> [s EXCEPT !.headers = Append(@, code), !.trace = Append(@, "WriteHeader")]]
\* WriteHeader that commits the code and leaves the latch open.
WriteHeaderOpForgetsLatch(c, s, code) ==
  IF ~c.wroteHeader
  THEN [c |-> [c EXCEPT !.status = code],
        s |-> [s EXCEPT !.headers = Append(@, code), !.trace = Append(@, "WriteHeader")]]
  ELSE [c |-> c, s |-> s]

\* WriteHeader on the capture c over the writer s: the pair afterwards.
WriteHeaderOp(c, s, code) ==
  IF ~c.wroteHeader
  THEN [c |-> [c EXCEPT !.status = code, !.wroteHeader = TRUE],
        s |-> [s EXCEPT !.headers = Append(@, code), !.trace = Append(@, "WriteHeader")]]
  ELSE [c |-> c, s |-> s]

\* Write on the capture c over the writer s that swallows the writer's answer.
WriteOpMasksFailure(c, s, data) ==
  LET h == WriteHeaderOp(c, s, StatusOK)
      wr == SinkWrite(h.s, data)
  IN  [c |-> [h.c EXCEPT !.body = @ \o data], s |-> wr.s, n |-> Len(data), err |-> FALSE]

\* Write that forwards the bytes before it commits the header.
WriteOpForwardsFirst(c, s, data) ==
  LET wr == SinkWrite(s, data)
      h == WriteHeaderOp(c, wr.s, StatusOK)
  IN  [c |-> [h.c EXCEPT !.body = @ \o data], s |-> h.s, n |-> wr.n, err |-> wr.err]

\* Write that buffers only what the wrapped writer accepted.
WriteOpBuffersAccepted(c, s, data) ==
  LET h == WriteHeaderOp(c, s, StatusOK)
      wr == SinkWrite(h.s, data)
  IN  [c |-> [h.c EXCEPT !.body = @ \o SubSeq(data, 1, wr.n)], s |-> wr.s,
       n |-> wr.n, err |-> wr.err]

\* Write on the capture c over the writer s, and the (n, err) it returns.
WriteOp(c, s, data) ==
  LET h == WriteHeaderOp(c, s, StatusOK)
      wr == SinkWrite(h.s, data)
  IN  [c |-> [h.c EXCEPT !.body = @ \o data], s |-> wr.s, n |-> wr.n, err |-> wr.err]

\* Bytes and StatusCode on the capture c: what they return; c is only read.
BytesOp(c) == c.body
StatusCodeOp(c) == c.status

\* Hijack on the capture over the writer s: the checked type assertion.
HijackOp(s) ==
  IF s.hijacker
  THEN [s |-> [s EXCEPT !.delegated = Append(@, "Hijack")], err |-> FALSE]
  ELSE [s |-> s, err |-> TRUE]

\* CloseNotify on the capture over the writer s: the type assertion is
\* unchecked and panics on a writer that is no http.CloseNotifier.
CloseNotifyOp(s) ==
  IF s.closeNotifier
  THEN [s |-> [s EXCEPT !.delegated = Append(@, "CloseNotify")], panic |-> FALSE]
  ELSE [s |-> s, panic |-> TRUE]

\* What a call on the capture returned to the handler.
Returns(op, data, code, n, err) ==
  Some([op |-> op, data |-> data, code |-> code, n |-> n, err |-> err])

(***************************************************************************)
(* The request life cycle.  pc: "idle" (no request), "start", "served"     *)
(* (handled without auditing), "request" (at LogRequestObject), "handler", *)
(* "respond" (the handler writes), "response" (at LogResponseObject),      *)
(* "select" (blocked in cacheEvent), "done", "panic".                      *)
(***************************************************************************)
\* req.Body as the server hands it over: orig tells it from a buffer put in its
\* place, reads counts the ReadAll calls made on it.
Stream(r) == [data |-> r.Body, pos |-> 0, failAt |-> r.failAt, orig |-> TRUE, reads |-> 0]

\* The filter in front of the handler: auditing is consulted first.
Filter(w) ==
  /\ pc[w] = "start"
  /\ pc' = [pc EXCEPT ![w] = IF Enabled THEN "request" ELSE "served"]
  /\ UNCHANGED <<repoVars, resourceVars, requestVars, body, ev, resp, sink, calls, ret, downstream, waited, outcome,
                 queueVars, backendVars>>

LogRequestObject(w) ==
  /\ pc[w] = "request"
  /\ LET r == LogRequestObjectResult(w, req[w], getAuditLevel, devops, body[w])
     IN  /\ pc' = [pc EXCEPT ![w] = IF r.panic THEN "panic" ELSE "handler"]
         /\ ev' = [ev EXCEPT ![w] = r.e]
         /\ body' = [body EXCEPT ![w] = r.stream]
  /\ UNCHANGED <<repoVars, resourceVars, requestVars, resp, sink, calls, ret, downstream, waited, outcome,
                 queueVars, backendVars>>

\* The handler consumes req.Body.
HandlerReadBody(w) ==
  /\ pc[w] = "handler"
  /\ LET rd == ReadAll(body[w])
     IN  /\ downstream' = [downstream EXCEPT ![w] = Some([data |-> rd.data, err |-> rd.err])]
         /\ body' = [body EXCEPT ![w] = rd.stream]
  /\ pc' = [pc EXCEPT ![w] = "respond"]
  /\ UNCHANGED <<repoVars, resourceVars, requestVars, ev, resp, sink, calls, ret, waited, outcome, queueVars,
                 backendVars>>

WriteHeader(w) ==
  /\ pc[w] = "respond"
  /\ calls[w] < MaxCalls
  /\ \E code \in Codes :
       LET h == WriteHeaderOp(resp[w], sink[w], code)
       IN  /\ resp' = [resp EXCEPT ![w] = h.c]
           /\ sink' = [sink EXCEPT ![w] = h.s]
           /\ ret' = [ret EXCEPT ![w] = Returns("WriteHeader", <<>>, code, 0, FALSE)]
  /\ calls' = [calls EXCEPT ![w] = @ + 1]
  /\ UNCHANGED <<repoVars, resourceVars, requestVars, body, pc, ev, downstream, waited, outcome, queueVars, backendVars>>

Write(w) ==
  /\ pc[w] = "respond"
  /\ calls[w] < MaxCalls
  /\ \E data \in Chunks :
       LET h == WriteOp(resp[w], sink[w], data)
       IN  /\ resp' = [resp EXCEPT ![w] = h.c]
           /\ sink' = [sink EXCEPT ![w] = h.s]
           /\ ret' = [ret EXCEPT ![w] = Returns("Write", data, 0, h.n, h.err)]
  /\ calls' = [calls EXCEPT ![w] = @ + 1]
  /\ UNCHANGED <<repoVars, resourceVars, requestVars, body, pc, ev, downstream, waited, outcome, queueVars, backendVars>>

Hijack(w) ==
  /\ pc[w] = "respond"
  /\ calls[w] < MaxCalls
  /\ LET h == HijackOp(sink[w])
     IN  /\ sink' = [sink EXCEPT ![w] = h.s]
         /\ ret' = [ret EXCEPT ![w] = Returns("Hijack", <<>>, 0, 0, h.err)]
  /\ calls' = [calls EXCEPT ![w] = @ + 1]
  /\ UNCHANGED <<repoVars, resourceVars, requestVars, body, pc, ev, resp, downstream, waited, outcome, queueVars,
                 backendVars>>

CloseNotify(w) ==
  /\ pc[w] = "respond"
  /\ calls[w] < MaxCalls
  /\ LET h == CloseNotifyOp(sink[w])
     IN  /\ sink' = [sink EXCEPT ![w] = h.s]
         /\ pc' = [pc EXCEPT ![w] = IF h.panic THEN "panic" ELSE @]
         /\ ret' = [ret EXCEPT ![w] = IF h.panic THEN Nil
                                      ELSE Returns("CloseNotify", <<>>, 0, 0, FALSE)]
  /\ calls' = [calls EXCEPT ![w] = @ + 1]
  /\ UNCHANGED <<repoVars, resourceVars, requestVars, body, ev, resp, downstream, waited, outcome, queueVars,
                 backendVars>>

Bytes(w) ==
  /\ pc[w] = "respond"
  /\ calls[w] < MaxCalls
  /\ ret' = [ret EXCEPT ![w] = Returns("Bytes", BytesOp(resp[w]), 0, 0, FALSE)]
  /\ calls' = [calls EXCEPT ![w] = @ + 1]
  /\ UNCHANGED <<repoVars, resourceVars, requestVars, body, pc, ev, resp, sink, downstream, waited, outcome,
                 queueVars, backendVars>>

StatusCode(w) ==
  /\ pc[w] = "respond"
  /\ calls[w] < MaxCalls
  /\ ret' = [ret EXCEPT ![w] = Returns("StatusCode", <<>>, StatusCodeOp(resp[w]), 0, FALSE)]
  /\ calls' = [calls EXCEPT ![w] = @ + 1]
  /\ UNCHANGED <<repoVars, resourceVars, requestVars, body, pc, ev, resp, sink, downstream, waited, outcome,
                 queueVars, backendVars>>

\* The handler returns: what its calls returned goes with its frame.
HandlerReturn(w) ==
  /\ pc[w] = "respond"
  /\ pc' = [pc EXCEPT ![w] = "response"]
  /\ ret' = [ret EXCEPT ![w] = Nil]
  /\ UNCHANGED <<repoVars, resourceVars, requestVars, body, ev, resp, sink, calls, downstream, waited, outcome,
                 queueVars, backendVars>>

(***************************************************************************)
(* Delivery queue: types.go:250-270.                                       *)
(***************************************************************************)
\* The two cases of cacheEvent's select: the send can proceed, the timer of
\* time.After(CacheTimeout) has fired.
SendReadyAlways == TRUE
SendReady == Len(cache) < DefaultCacheCapacity

TimerNeverFires(w) == FALSE
\* A select that also gives up when stopCh is closed.
TimerFiredOrStopped(w) == stopCh \/ waited[w] >= CacheTimeout
\* A timer that fires one tick early.
TimerFiredEarly(w) == waited[w] >= CacheTimeout - 1
TimerFired(w) == waited[w] >= CacheTimeout

\* What the timeout case writes: one line at verbosity 8, with the AuditID.
TimeoutLogNothing(e) == klog
TimeoutLog(e) == Append(klog, e.AuditID)

\* a.cacheEvent(*e) hands the event over by value (types.go:258, 261): the
\* pointer sent on the channel is to cacheEvent's own copy.
PassedByPointer == FALSE
PassedByValue == TRUE

\* LogResponseObject, types.go:250-259, with the start of cacheEvent's select:
\* a nil event is dereferenced; a send that can proceed at once does, for the
\* timer has not fired yet.
LogResponseObject(w) ==
  /\ pc[w] = "response"
  /\ IF ev[w] = Nil
     THEN /\ pc' = [pc EXCEPT ![w] = "panic"]
          /\ UNCHANGED <<ev, waited, outcome, cache, aliased>>
     ELSE LET e == Finalize(ev[w][1], resp[w])
          IN  /\ ev' = [ev EXCEPT ![w] = Some(e)]
              /\ aliased' = [aliased EXCEPT ![w] = ~PassedByValue]
              /\ waited' = [waited EXCEPT ![w] = 0]
              /\ IF SendReady
                 THEN /\ cache' = Append(cache, e)
                      /\ pc' = [pc EXCEPT ![w] = "done"]
                      /\ outcome' = [outcome EXCEPT ![w] = "queued"]
                 ELSE /\ pc' = [pc EXCEPT ![w] = "select"]
                      /\ UNCHANGED <<outcome, cache>>
  /\ UNCHANGED <<repoVars, resourceVars, requestVars, body, resp, sink, calls, ret, downstream, klog, backendVars>>

\* A send that leaves the call blocked in its select.
cacheEventSendKeepsWaiting(w) ==
  /\ pc[w] = "select"
  /\ SendReady
  /\ cache' = Append(cache, ev[w][1])
  /\ UNCHANGED <<repoVars, resourceVars, requestVars, workerVars, klog, aliased, backendVars>>
\* case a.cache <- &e, taken while the worker is blocked in the select.
cacheEventSend(w) ==
  /\ pc[w] = "select"
  /\ SendReady
  /\ cache' = Append(cache, ev[w][1])
  /\ pc' = [pc EXCEPT ![w] = "done"]
  /\ outcome' = [outcome EXCEPT ![w] = "queued"]
  /\ UNCHANGED <<repoVars, resourceVars, requestVars, body, ev, resp, sink, calls, ret, downstream, waited, klog,
                 aliased, backendVars>>

\* case <-time.After(CacheTimeout).
cacheEventTimeout(w) ==
  /\ pc[w] = "select"
  /\ TimerFired(w)
  /\ klog' = TimeoutLog(ev[w][1])
  /\ pc' = [pc EXCEPT ![w] = "done"]
  /\ outcome' = [outcome EXCEPT ![w] = "dropped"]
  /\ UNCHANGED <<repoVars, resourceVars, requestVars, body, ev, resp, sink, calls, ret, downstream, waited, cache,
                 aliased, backendVars>>

\* Time passes for every worker blocked in the select; it does not pass a
\* timer's deadline before that select has returned, nor while a blocked send
\* can proceed (a receive on the channel wakes a blocked sender at once).
Tick ==
  /\ \E w \in Workers : pc[w] = "select"
  /\ ~SendReady
  /\ \A w \in Workers : pc[w] = "select" => waited[w] < CacheTimeout
  /\ waited' = [w \in Workers |-> IF pc[w] = "select" THEN waited[w] + 1 ELSE waited[w]]
  /\ UNCHANGED <<repoVars, resourceVars, requestVars, body, pc, ev, resp, sink, calls, ret, downstream, outcome,
                 queueVars, backendVars>>

\* After LogResponseObject has returned, the worker assigns a field of its own
\* event; an event in the channel follows only if the channel's pointer is to
\* that very event.
MutateOwnEvent(w) ==
  /\ pc[w] = "done"
  /\ ev[w] # Nil
  /\ ev[w][1].Verb # "changed"
  /\ ev' = [ev EXCEPT ![w] = Some([ev[w][1] EXCEPT !.Verb = "changed"])]
  /\ cache' = [i \in 1..Len(cache) |->
                IF aliased[w] /\ cache[i].AuditID = w
                THEN [cache[i] EXCEPT !.Verb = "changed"]
                ELSE cache[i]]
  /\ UNCHANGED <<repoVars, resourceVars, requestVars, body, pc, resp, sink, calls, ret, downstream, waited, outcome,
                 klog, aliased, backendVars>>

(***************************************************************************)
(* Backend: the consumer NewBackend starts on the channel (types.go:78).   *)
(***************************************************************************)
Consume ==
  /\ backendUp
  /\ cache # <<>>
  /\ delivered' = Append(delivered, Head(cache).AuditID)
  /\ cache' = Tail(cache)
  /\ UNCHANGED <<repoVars, resourceVars, requestVars, workerVars, klog, aliased, stopCh, backendUp>>

Shutdown ==
  /\ ~stopCh
  /\ stopCh' = TRUE
  /\ UNCHANGED <<repoVars, resourceVars, requestVars, workerVars, queueVars, delivered, backendUp>>

BackendStop ==
  /\ stopCh
  /\ backendUp
  /\ backendUp' = FALSE
  /\ UNCHANGED <<repoVars, resourceVars, requestVars, workerVars, queueVars, delivered, stopCh>>

(***************************************************************************)
(* ResourceGetter: src/unnamed/part_001 (package resource).  A getter is   *)
(* known by the map and the key it is registered under.                    *)
(***************************************************************************)
ErrResourceNotSupported == "resource is not supported"

\* Keys of the two maps, and what Get and List are called with.
GroupVersionResources == [Group : {"", "apps"}, Resource : {"pods", "users"}]
ResourceNames == {"pods", "users", "nodes"}
Namespaces == {"", "ns1"}
ObjectNames == {"a", "b"}

\* TryResource that looks at the cluster-scoped getters whatever the scope.
TryResourceAnyScope(clusterScope, resource) ==
  LET c == {k \in clusterResourceGetters : k.Resource = resource}
      n == {k \in namespacedResourceGetters : k.Resource = resource}
  IN  IF c # {} THEN {Some([scope |-> "cluster", key |-> k]) : k \in c}
      ELSE IF n # {} THEN {Some([scope |-> "namespaced", key |-> k]) : k \in n}
      ELSE {Nil}

\* TryResource: the getters it can return (Nil: nil).  The maps are ranged
\* over in no fixed order, so any key with the resource name can be the hit.
TryResource(clusterScope, resource) ==
  LET c == {k \in clusterResourceGetters : k.Resource = resource}
      n == {k \in namespacedResourceGetters : k.Resource = resource}
  IN  IF clusterScope /\ c # {} THEN {Some([scope |-> "cluster", key |-> k]) : k \in c}
      ELSE IF n # {} THEN {Some([scope |-> "namespaced", key |-> k]) : k \in n}
      ELSE {Nil}

\* Get and List share their shape: the scope from the namespace, TryResource,
\* ErrResourceNotSupported without a getter, else the getter's own Get or
\* List with the namespace and the name or query.
Lookup(op, resource, namespace, arg) ==
  \E getter \in TryResource(namespace = "", resource) :
    lookup' = Some([ op |-> op, resource |-> resource, namespace |-> namespace, arg |-> arg,
                     err |-> IF getter = Nil THEN ErrResourceNotSupported ELSE "",
                     getter |-> getter,
                     passed |-> IF getter = Nil THEN <<>> ELSE <<namespace, arg>> ])

Get ==
  /\ \E resource \in ResourceNames, namespace \in Namespaces, name \in ObjectNames :
       Lookup("Get", resource, namespace, name)
  /\ UNCHANGED <<repoVars, clusterResourceGetters, namespacedResourceGetters, requestVars, workerVars,
                 queueVars, backendVars>>

List ==
  /\ \E resource \in ResourceNames, namespace \in Namespaces, query \in ObjectNames :
       Lookup("List", resource, namespace, query)
  /\ UNCHANGED <<repoVars, clusterResourceGetters, namespacedResourceGetters, requestVars, workerVars,
                 queueVars, backendVars>>

(***************************************************************************)
(* repoOperator: src/pkg/models/openpitrix/v2alpha1/repos.go.  The         *)
(* reposGetter is an interface value; it is known here by the HelmRepos it *)
(* holds and by whether it hands out its own objects or copies of them.    *)
(* Repository ids are numbered.                                            *)
(***************************************************************************)
RepoIds == 1..MaxRepos
\* An id no repository has.
UnknownRepoId == MaxRepos + 1

\* v1alpha1.HelmRepoCredential{} and a credential with secrets in it.
EmptyCredential == [Username |-> "", Password |-> ""]
HelmRepoCredentials == {EmptyCredential, [Username |-> "admin", Password |-> "s3cret"]}

\* The fields of a HelmRepo the operator touches.
HelmRepos == [Spec : [Credential : HelmRepoCredentials], Status : [Data : {"", "index"}]]

\* What the reposGetter can hold.
HelmRepoStores == UNION {[ids -> HelmRepos] : ids \in SUBSET RepoIds}

\* The errors of the reposGetter and of the selector conversion.
ErrNotFound == "not found"
ErrGetter == "getter failed"
ErrSelector == "invalid selector"

\* Label selectors as text: the list of their comma-separated parts, a part
\* being <<key, value>> when it reads key=value and <<text>> when not.
WorkspaceLabelKey == "kubesphere.io/workspace"
Workspaces == {"", "ws1"}
LabelSelectors ==
  { <<>>,
    << <<"app", "x">> >>,
    << <<WorkspaceLabelKey, "ws2">>, <<"app", "x">> >>,
    << <<"app">> >> }

\* The label keys in the order labels.Set.String() sorts them.
LabelKeys == <<"app", WorkspaceLabelKey>>

\* labels.ConvertSelectorToLabelsMap: the map of the key=value parts, an
\* error when a part is not of that form.
ConvertSelectorToLabelsMap(selector) ==
  IF \E i \in 1..Len(selector) : Len(selector[i]) # 2
  THEN [err |-> Some(ErrSelector), labels |-> <<>>]
  ELSE [err |-> Nil,
        labels |-> [k \in {selector[i][1] : i \in 1..Len(selector)} |->
                      LET last == CHOOSE i \in 1..Len(selector) :
                                    /\ selector[i][1] = k
                                    /\ \A j \in 1..Len(selector) : selector[j][1] = k => j <= i
                      IN  selector[last][2]]]

\* labels.Merge: the second map wins on a shared key.
Merge(labels1, labels2) ==
  [k \in DOMAIN labels1 \cup DOMAIN labels2 |->
     IF k \in DOMAIN labels2 THEN labels2[k] ELSE labels1[k]]

\* labels.Set.String(): the key=value parts sorted by key.
LabelsString(labels) ==
  LET Has(k) == k \in DOMAIN labels
      keys == SelectSeq(LabelKeys, Has)
  IN  [i \in 1..Len(keys) |-> <<keys[i], labels[keys[i]]>>]

\* The ids of a set in ascending order.
Ascending(ids) ==
  CHOOSE q \in [1..Cardinality(ids) -> ids] :
    \A i, j \in 1..Cardinality(ids) : i < j => q[i] < q[j]

\* What DescribeRepo clears in the repository it returns.
DescribeRepoStrip(repo) == [repo EXCEPT !.Status.Data = ""]

\* What ListRepos clears in every item it returns.
ListReposStrip(d) ==
  [d EXCEPT !.Status.Data = "", !.Spec.Credential = EmptyCredential]

\* The record of a call: its arguments, what the reposGetter answered
\* (getterErr; ids: the objects it returned), what klog.Error was given
\* (logged), and the two return values (repo or list, and err).
RepoReturn(op, id, workspace, query, called, getterErr, ids, logged, repo, list, err) ==
  Some([ op |-> op, id |-> id, workspace |-> workspace, query |-> query,
         called |-> called, getterErr |-> getterErr, ids |-> ids,
         logged |-> logged, repo |-> repo, list |-> list, err |-> err ])

\* DescribeRepo(id): reposGetter.Get("", id); on error log and return
\* (nil, err); else clear Status.Data of the object and return it.  The
\* write goes through the pointer the getter returned.
DescribeRepo ==
  /\ \E id \in RepoIds \cup {UnknownRepoId}, failed \in BOOLEAN :
       LET getterErr == IF id \notin DOMAIN helmRepos THEN Some(ErrNotFound)
                        ELSE IF failed THEN Some(ErrGetter)
                        ELSE Nil
       IN  IF getterErr # Nil
           THEN /\ repoResult' = RepoReturn("DescribeRepo", id, "", <<>>, TRUE, getterErr, <<>>,
                                            getterErr, Nil, Nil, getterErr)
                /\ UNCHANGED helmRepos
           ELSE LET repo == DescribeRepoStrip(helmRepos[id])
                IN  /\ repoResult' = RepoReturn("DescribeRepo", id, "", <<>>, TRUE, Nil, <<id>>,
                                                Nil, Some(repo), Nil, Nil)
                    /\ helmRepos' = IF getterCopies THEN helmRepos
                                    ELSE [helmRepos EXCEPT ![id] = repo]
  /\ UNCHANGED <<getterCopies, resourceVars, requestVars, workerVars, queueVars, backendVars>>

\* ListRepos(workspace, qry): with a workspace, convert qry.LabelSelector
\* (on error log and return (nil, err)) and replace it by the merge with the
\* workspace label; then reposGetter.List("", qry); on error log and return
\* (nil, err); else clear Status.Data and Spec.Credential of every item and
\* return the list.  The getter chooses the items.
ListRepos ==
  /\ \E workspace \in Workspaces, selector \in LabelSelectors, failed \in BOOLEAN,
        found \in SUBSET DOMAIN helmRepos :
       LET converted == ConvertSelectorToLabelsMap(selector)
           merged == LabelsString(Merge(converted.labels,
                                        [k \in {WorkspaceLabelKey} |-> workspace]))
           query == IF workspace # "" THEN merged ELSE selector
           ids == Ascending(found)
           items == [i \in 1..Len(ids) |-> ListReposStrip(helmRepos[ids[i]])]
       IN  IF workspace # "" /\ converted.err # Nil
           THEN /\ repoResult' = RepoReturn("ListRepos", 0, workspace, selector, FALSE, Nil, <<>>,
                                            converted.err, Nil, Nil, converted.err)
                /\ UNCHANGED helmRepos
           ELSE IF failed
           THEN /\ repoResult' = RepoReturn("ListRepos", 0, workspace, query, TRUE, Some(ErrGetter),
                                            <<>>, Some(ErrGetter), Nil, Nil, Some(ErrGetter))
                /\ UNCHANGED helmRepos
           ELSE /\ repoResult' = RepoReturn("ListRepos", 0, workspace, query, TRUE, Nil, ids, Nil, Nil,
                                            Some([Items |-> items, TotalItems |-> Len(items)]), Nil)
                /\ helmRepos' = IF getterCopies THEN helmRepos
                                ELSE [id \in DOMAIN helmRepos |->
                                        IF id \in found THEN ListReposStrip(helmRepos[id])
                                        ELSE helmRepos[id]]
  /\ UNCHANGED <<getterCopies, resourceVars, requestVars, workerVars, queueVars, backendVars>>
(***************************************************************************)
(* Initial states.                                                         *)
(***************************************************************************)
\* A request with nothing special about it, and the slot of an idle worker.
PlainRequest ==
  [ IsKubernetesRequest |-> FALSE, dryRun |-> FALSE, Verb |-> "get",
    Resource |-> "pods", Name |-> "bob", DevOps |-> "", Workspace |-> "",
    ContentLength |-> 0, Body |-> <<>>, failAt |-> NoError ]

\* The requests of the whole life cycle: dry-run or not, with and without a body.
PipelineRequests ==
  { [PlainRequest EXCEPT !.IsKubernetesRequest = k, !.dryRun = d, !.Verb = v,
                         !.Name = "", !.ContentLength = Len(b), !.Body = b] :
      k \in BOOLEAN, d \in BOOLEAN, v \in {"get", "create"},
      b \in {<<>>, <<LBrace, <<"name", "alice">>, RBrace>>} }

\* The requests LogRequestObject is applied to on its own: every verb, resource,
\* name and body, a declared or unknown content length, a stream that fails at
\* any offset or not at all.
BodyRequests ==
  { [PlainRequest EXCEPT !.IsKubernetesRequest = k, !.dryRun = d, !.Verb = v,
                         !.Resource = rs, !.Name = n, !.Body = b,
                         !.ContentLength = cl, !.failAt = f] :
      k \in BOOLEAN, d \in BOOLEAN, v \in Verbs, rs \in Resources, n \in Names,
      b \in Bodies, cl \in -1..3, f \in {NoError, 0, 1, 2} }

WellFormed(r) ==
  /\ r.ContentLength \in {-1, Len(r.Body)}
  /\ r.failAt < Len(r.Body)

\* The registry: List fails (leaving res nil or not) or answers a list.
EmptyRegistry == [err |-> FALSE, res |-> Some(<<>>)]

\* The lists List answers: up to MaxProjects projects, no name twice (DevOps
\* projects are cluster-scoped objects), in any order.
ProjectLists ==
  { l \in UNION { [1..k -> Projects] : k \in 0..MaxProjects } :
      \A i, j \in 1..Len(l) : i # j => l[i].Name # l[j].Name }
Registries ==
  { [err |-> TRUE, res |-> Nil], [err |-> TRUE, res |-> Some(<<>>)] }
    \cup { [err |-> FALSE, res |-> Some(l)] : l \in ProjectLists }

\* The requests workspace enrichment is about: with or without a project id
\* (a project name or an admin namespace), with or without a workspace.
DevopsRequests ==
  { [PlainRequest EXCEPT !.DevOps = d, !.Workspace = ws] :
      d \in {"", "p1", "p2", "ns1"}, ws \in {"", "ws0"} }

\* The event and the capture of a plain request answered 200 with one chunk, as
\* LogRequestObject and the handler's calls leave them.
PlainCapture == WriteOp(WriteHeaderOp(NewResponseCapture, NewSink, StatusOK).c,
                        WriteHeaderOp(NewResponseCapture, NewSink, StatusOK).s, <<"r1">>)
PlainEvent(id, level) ==
  LogRequestObjectResult(id, PlainRequest, level, EmptyRegistry, Stream(PlainRequest)).e[1]

\* Events of earlier requests still in the channel: none while auditing is off.
Backlog(level) ==
  IF Less(level, LevelMetadata) THEN {<<>>}
  ELSE { [i \in 1..k |-> Finalize(PlainEvent(NumWorkers + i, level), PlainCapture.c)] :
           k \in 0..DefaultCacheCapacity }

InitWorkers(active, at) ==
  /\ body = [w \in Workers |-> Stream(req[w])]
  /\ pc = [w \in Workers |-> IF w \in active THEN at ELSE "idle"]
  /\ resp = [w \in Workers |-> NewResponseCapture]
  /\ sink = [w \in Workers |-> NewSink]
  /\ calls = [w \in Workers |-> 0]
  /\ ret = [w \in Workers |-> Nil]
  /\ downstream = [w \in Workers |-> Nil]
  /\ waited = [w \in Workers |-> 0]
  /\ outcome = [w \in Workers |-> "none"]

\* Nothing logged or delivered yet, the backend running.
InitAuditing ==
  /\ klog = <<>>
  /\ aliased = [w \in Workers |-> FALSE]
  /\ delivered = <<>>
  /\ stopCh = FALSE
  /\ backendUp = TRUE

\* No ResourceGetter beside the pipeline.
NoResourceGetter ==
  /\ clusterResourceGetters = {}
  /\ namespacedResourceGetters = {}
  /\ lookup = Nil

\* No repoOperator beside the pipeline.
NoRepoOperator ==
  /\ helmRepos = <<>>
  /\ getterCopies = FALSE
  /\ repoResult = Nil

InitBackend ==
  /\ NoResourceGetter
  /\ NoRepoOperator
  /\ InitAuditing

\* A ResourceGetter before any call on it.  NewResourceGetter fills the two
\* maps with a fixed registration; every registration over the keys is taken
\* here, which covers its shapes: a name in one map, in both, in neither,
\* under one group or several.  The auditing pipeline is idle.
InitResource ==
  /\ clusterResourceGetters \in SUBSET GroupVersionResources
  /\ namespacedResourceGetters \in SUBSET GroupVersionResources
  /\ lookup = Nil
  /\ NoRepoOperator
  /\ webhook = Nil
  /\ devops = EmptyRegistry
  /\ req = [w \in Workers |-> PlainRequest]
  /\ ev = [w \in Workers |-> Nil]
  /\ InitWorkers({}, "idle")
  /\ cache = <<>>
  /\ InitAuditing

\* A repoOperator before any call on it, over every store of its reposGetter
\* and both ways the getter can hand out objects.  The auditing pipeline is
\* idle and there is no ResourceGetter.
InitRepo ==
  /\ helmRepos \in HelmRepoStores
  /\ getterCopies \in BOOLEAN
  /\ repoResult = Nil
  /\ NoResourceGetter
  /\ webhook = Nil
  /\ devops = EmptyRegistry
  /\ req = [w \in Workers |-> PlainRequest]
  /\ ev = [w \in Workers |-> Nil]
  /\ InitWorkers({}, "idle")
  /\ cache = <<>>
  /\ InitAuditing

\* One request through its whole life cycle, under every webhook object and
\* every backlog of the channel.
Init ==
  /\ webhook \in WebhookStore
  /\ devops = EmptyRegistry
  /\ \E r \in PipelineRequests : req = [w \in Workers |-> IF w = 1 THEN r ELSE PlainRequest]
  /\ ev = [w \in Workers |-> Nil]
  /\ InitWorkers({1}, "start")
  /\ cache \in Backlog(getAuditLevel)
  /\ InitBackend

\* One request at the call of LogRequestObject, under every level.
InitRequest ==
  /\ webhook \in {Nil} \cup {Some([AuditLevel |-> l, K8sAuditingEnabled |-> FALSE]) : l \in Levels}
  /\ \/ /\ devops = EmptyRegistry
        /\ \E r \in {x \in BodyRequests : WellFormed(x)} :
             req = [w \in Workers |-> IF w = 1 THEN r ELSE PlainRequest]
     \/ /\ devops \in Registries
        /\ \E r \in DevopsRequests :
             req = [w \in Workers |-> IF w = 1 THEN r ELSE PlainRequest]
  /\ ev = [w \in Workers |-> Nil]
  /\ InitWorkers({1}, "request")
  /\ cache = <<>>
  /\ InitBackend

\* Every worker at the call of LogResponseObject with the event and the capture
\* of a plain request, the channel empty, auditing on.
InitQ ==
  /\ webhook \in {Some([AuditLevel |-> l, K8sAuditingEnabled |-> FALSE]) :
                    l \in {LevelMetadata, LevelRequestResponse}}
  /\ devops = EmptyRegistry
  /\ req = [w \in Workers |-> PlainRequest]
  /\ ev = [w \in Workers |-> Some(PlainEvent(w, getAuditLevel))]
  /\ body = [w \in Workers |-> Stream(req[w])]
  /\ pc = [w \in Workers |-> "response"]
  /\ resp = [w \in Workers |-> PlainCapture.c]
  /\ sink = [w \in Workers |-> PlainCapture.s]
  /\ calls = [w \in Workers |-> 2]
  /\ ret = [w \in Workers |-> Nil]
  /\ downstream = [w \in Workers |-> Some([data |-> <<>>, err |-> FALSE])]
  /\ waited = [w \in Workers |-> 0]
  /\ outcome = [w \in Workers |-> "none"]
  /\ cache = <<>>
  /\ InitBackend

\* One request whose handler is about to answer, over every wrapped writer and
\* every backlog of the channel.
InitCapture ==
  /\ webhook \in {Some([AuditLevel |-> l, K8sAuditingEnabled |-> FALSE]) :
                    l \in {LevelMetadata, LevelRequestResponse}}
  /\ devops = EmptyRegistry
  /\ req = [w \in Workers |-> PlainRequest]
  /\ ev = [w \in Workers |-> IF w = 1 THEN Some(PlainEvent(w, getAuditLevel)) ELSE Nil]
  /\ body = [w \in Workers |-> Stream(req[w])]
  /\ pc = [w \in Workers |-> IF w = 1 THEN "respond" ELSE "idle"]
  /\ resp = [w \in Workers |-> NewResponseCapture]
  /\ \E s \in Sinks : sink = [w \in Workers |-> IF w = 1 THEN s ELSE NewSink]
  /\ calls = [w \in Workers |-> 0]
  /\ ret = [w \in Workers |-> Nil]
  /\ downstream = [w \in Workers |-> IF w = 1 THEN Some([data |-> <<>>, err |-> FALSE]) ELSE Nil]
  /\ waited = [w \in Workers |-> 0]
  /\ outcome = [w \in Workers |-> "none"]
  /\ cache \in Backlog(getAuditLevel)
  /\ InitBackend

(***************************************************************************)
(* Specifications.                                                         *)
(***************************************************************************)
Next ==
  \/ \E w \in Workers :
       \/ Filter(w)
       \/ LogRequestObject(w)
       \/ HandlerReadBody(w)
       \/ WriteHeader(w)
       \/ Write(w)
       \/ HandlerReturn(w)
       \/ LogResponseObject(w)
       \/ cacheEventSend(w)
       \/ cacheEventTimeout(w)
  \/ Tick
  \/ Consume
  \/ Shutdown
  \/ BackendStop

Spec == Init /\ [][Next]_vars

NextRequest == \E w \in Workers : LogRequestObject(w) \/ HandlerReadBody(w)

SpecRequest == InitRequest /\ [][NextRequest]_vars

NextQ ==
  \/ \E w \in Workers :
       \/ LogResponseObject(w)
       \/ cacheEventSend(w)
       \/ cacheEventTimeout(w)
  \/ Tick
  \/ Consume
  \/ Shutdown
  \/ BackendStop

NextResource == Get \/ List

SpecResource == InitResource /\ [][NextResource]_vars

NextRepo == DescribeRepo \/ ListRepos

SpecRepo == InitRepo /\ [][NextRepo]_vars

NextCapture ==
  \E w \in Workers :
    \/ WriteHeader(w)
    \/ Write(w)
    \/ Hijack(w)
    \/ CloseNotify(w)
    \/ Bytes(w)
    \/ StatusCode(w)
    \/ HandlerReturn(w)

SpecCapture == InitCapture /\ [][NextCapture]_vars

\* Time passes and a select whose timer has fired or whose send can proceed
\* returns; nothing is assumed of the consumer.
FairTimers ==
  /\ WF_vars(Tick)
  /\ \A w \in Workers : WF_vars(cacheEventTimeout(w)) /\ WF_vars(cacheEventSend(w))

SpecQ == InitQ /\ [][NextQ]_vars /\ FairTimers

\* The workers also go on to change their own events.
NextCopy == NextQ \/ \E w \in Workers : MutateOwnEvent(w)

SpecCopy == InitQ /\ [][NextCopy]_vars

\* The consumer runs as well.
SpecLive == InitQ /\ [][NextQ]_vars /\ FairTimers /\ WF_vars(Consume)

(***************************************************************************)
(* Properties.                                                             *)
(***************************************************************************)
\* The AuditIDs held by the channel.
Queued == {cache[i].AuditID : i \in 1..Len(cache)}
Delivered == {delivered[i] : i \in 1..Len(delivered)}

\* No event of worker w's request is or was in the channel.
NeverEnqueued(w) ==
  /\ w \notin Queued
  /\ w \notin Delivered
  /\ outcome[w] = "none"

\* LogRequestObject has returned for worker w's request.
Returned(w) == pc[w] \in {"handler", "respond", "response", "select", "done"}

\* C1 (amended): for every Kubernetes request with a dryRun query parameter,
\* LogRequestObject returns nil and no event of that request is ever placed
\* on the cache channel, at every audit level and for every request shape.
C1_KubernetesDryRunNotAudited ==
  \A w \in Workers :
    (req[w].IsKubernetesRequest /\ req[w].dryRun) =>
      /\ NeverEnqueued(w)
      /\ Returned(w) => ev[w] = Nil

\* C1 reached: LogRequestObject has returned nil for a Kubernetes dry-run
\* request, and the handler has run.
C1_Witness ==
  \E w \in Workers :
    /\ req[w].IsKubernetesRequest /\ req[w].dryRun
    /\ pc[w] = "response"
    /\ ev[w] = Nil

\* C1 as claimed: for every request with a dryRun query parameter,
\* LogRequestObject returns nil and no event of that request is ever placed
\* on the cache channel.
C1_AnyDryRunNotAudited ==
  \A w \in Workers :
    req[w].dryRun =>
      /\ NeverEnqueued(w)
      /\ Returned(w) => ev[w] = Nil

\* C2 as claimed: LogResponseObject called with a nil event is a no-op: the
\* call returns, nothing is enqueued, and the channel and the captured
\* response are as before.
C2_NilEventIsNoOp ==
  [][\A w \in Workers :
       (pc[w] = "response" /\ ev[w] = Nil /\ pc'[w] # "response") =>
         /\ pc'[w] = "done"
         /\ cache' = cache
         /\ resp'[w] = resp[w]]_vars

\* C3: a cacheEvent call blocked on a full channel has waited at most
\* CacheTimeout, drops its event only when that time is up, and returns,
\* whether or not the consumer ever takes an event.
C3_EnqueueReturns ==
  /\ [](\A w \in Workers :
          /\ pc[w] = "select" => waited[w] <= CacheTimeout
          /\ outcome[w] = "dropped" => waited[w] = CacheTimeout /\ pc[w] = "done")
  /\ \A w \in Workers : (pc[w] = "select") ~> (pc[w] = "done")

\* C3 reached: a call timed out and returned while the consumer took nothing.
C3_Witness ==
  \E w \in Workers :
    /\ pc[w] = "done"
    /\ outcome[w] = "dropped"
    /\ delivered = <<>>
    /\ backendUp

\* C4: with the consumer taking nothing, NumWorkers enqueues on an empty
\* channel of capacity DefaultCacheCapacity leave the channel holding
\* min(NumWorkers, capacity) events and drop the others, each drop logged once
\* (capacity 2, three enqueues: two queued, one dropped); and every queued
\* event is eventually taken by the consumer unless the backend has stopped.
C4_ScenarioOverflow ==
  /\ []((delivered = <<>> /\ \A w \in Workers : pc[w] = "done") =>
          /\ Len(cache) = Min(NumWorkers, DefaultCacheCapacity)
          /\ Cardinality({w \in Workers : outcome[w] = "dropped"})
               = NumWorkers - Min(NumWorkers, DefaultCacheCapacity)
          /\ Len(klog) = NumWorkers - Min(NumWorkers, DefaultCacheCapacity))
  /\ \A w \in Workers : (w \in Queued) ~> (w \in Delivered \/ ~backendUp)

\* C4 reached: every enqueue has returned, the consumer has taken nothing, the
\* channel is full and an event was dropped.
C4_Witness ==
  /\ \A w \in Workers : pc[w] = "done"
  /\ delivered = <<>>
  /\ Len(cache) = DefaultCacheCapacity
  /\ Len(klog) = 1
  /\ \E w \in Workers : outcome[w] = "dropped"

\* The state the auditing object holds (types.go:63-68): the lister, the
\* getter, the channel and the backend.
AuditingState == <<webhook, devops, cache, backendVars>>

\* Worker w's cacheEvent call returns in this step.
EnqueueReturns(w) == pc[w] \in {"response", "select"} /\ pc'[w] = "done"

\* C5 (amended): cacheEvent keeps no count of dropped events; every call that
\* times out writes exactly one log line, with the AuditID of the dropped
\* event, and changes nothing the auditing object holds; a call that inserts
\* its event writes no log line.
C5_DropIsLoggedOnce ==
  [][\A w \in Workers :
       EnqueueReturns(w) =>
         IF outcome'[w] = "dropped"
         THEN /\ klog' = Append(klog, ev[w][1].AuditID)
              /\ AuditingState' = AuditingState
         ELSE /\ klog' = klog
              /\ outcome'[w] = "queued"
              /\ Len(cache') = Len(cache) + 1]_vars

\* C5 reached: a call has timed out and its drop is in the log.
C5_Witness ==
  \E w \in Workers :
    /\ outcome[w] = "dropped"
    /\ klog = <<w>>
    /\ \E v \in Workers : outcome[v] = "queued"

\* C5 as claimed: the pipeline keeps a count of dropped events that goes up by
\* one with every drop, so that a drop changes the state the auditing object
\* holds.
C5_DropIsCounted ==
  [][\A w \in Workers :
       (EnqueueReturns(w) /\ outcome'[w] = "dropped") =>
         AuditingState' # AuditingState]_vars

C7_EnabledIffMetadataOrHigher ==
  /\ Enabled <=> getAuditLevel \in {LevelMetadata, LevelRequest, LevelRequestResponse}
  /\ webhook # Nil => /\ getAuditLevel = webhook[1].AuditLevel
                      /\ K8sAuditingEnabled = webhook[1].K8sAuditingEnabled
  /\ webhook = Nil =>
       /\ getAuditLevel = LevelNone
       /\ ~Enabled
       /\ ~K8sAuditingEnabled
       /\ \A w \in Workers : pc[w] \in {"idle", "start", "served"}

\* C7 reached: the lookup failed and the request was served.
C7_Witness ==
  /\ webhook = Nil
  /\ \E w \in Workers : pc[w] = "served"

\* The body-inspection gate, from the request and the level the event got.
GateFired(w) ==
  /\ req[w].ContentLength > 0
  /\ \/ ordLevel(ev[w][1].Level) >= 2
     \/ req[w].Verb = "create"
     \/ req[w].Resource = "users" /\ req[w].Verb = "update"

\* C8 (amended): for every event LogRequestObject returns, RequestObject is
\* non-nil iff the level is Request or higher, the body-inspection gate fired
\* and the body was read without error; it then holds the body that arrived.
C8_RequestSnapshot ==
  \A w \in Workers :
    (Returned(w) /\ ev[w] # Nil) =>
      /\ ev[w][1].RequestObject # Nil <=>
           (ordLevel(ev[w][1].Level) >= 2 /\ GateFired(w) /\ req[w].failAt = NoError)
      /\ ev[w][1].RequestObject # Nil => ev[w][1].RequestObject = Some(req[w].Body)

\* C8 reached: the gate fired at level Request or higher, the read failed and
\* the event returned has no snapshot.
C8_Witness ==
  \E w \in Workers :
    /\ Returned(w) /\ ev[w] # Nil
    /\ ordLevel(ev[w][1].Level) >= 2 /\ GateFired(w)
    /\ req[w].failAt # NoError
    /\ ev[w][1].RequestObject = Nil

\* C8 as claimed: RequestObject is non-nil iff the level is Request or higher
\* and the body-inspection gate fired.
C8_SnapshotIffGate ==
  \A w \in Workers :
    (Returned(w) /\ ev[w] # Nil) =>
      (ev[w][1].RequestObject # Nil <=> (ordLevel(ev[w][1].Level) >= 2 /\ GateFired(w)))

\* An event finalized for the capture c.
FinalizedFor(e, c) ==
  /\ e.ResponseObject # Nil <=> e.Level = LevelRequestResponse
  /\ e.ResponseObject # Nil => e.ResponseObject = Some(c.body)
  /\ e.ResponseStatus = Some(c.status)
  /\ e.StageTimestamp = 1

\* C9: every event LogResponseObject has finalized, and every event of a
\* worker in the channel, has a ResponseObject iff its level is
\* RequestResponse, equal to the bytes of the capture, and the capture's
\* status code as its response status.
C9_ResponseSnapshot ==
  /\ \A w \in Workers : pc[w] \in {"select", "done"} => FinalizedFor(ev[w][1], resp[w])
  /\ \A i \in 1..Len(cache) :
       /\ cache[i].ResponseObject # Nil <=> cache[i].Level = LevelRequestResponse
       /\ cache[i].AuditID \in Workers => FinalizedFor(cache[i], resp[cache[i].AuditID])

\* C9 reached: an event with the captured bytes and a 404 is in the channel.
C9_Witness ==
  \E i \in 1..Len(cache) :
    /\ cache[i].AuditID \in Workers
    /\ cache[i].ResponseObject = Some(<<"r2">>)
    /\ cache[i].ResponseStatus = Some(404)

\* C10 as claimed: on every path through LogRequestObject, the read that
\* fails included, the handler reads from req.Body the bytes it would have
\* read had LogRequestObject not run.
C10_BodyRoundTrip ==
  \A w \in Workers :
    (pc[w] = "respond" /\ downstream[w] # Nil) =>
      downstream[w][1].data =
        IF req[w].failAt = NoError THEN req[w].Body
        ELSE SubSeq(req[w].Body, 1, req[w].failAt)

\* The handler of w has just made the call op on its capture.
Called(w, op) ==
  /\ calls'[w] = calls[w] + 1
  /\ ret'[w] # Nil
  /\ ret'[w][1].op = op

\* The last element of a non-empty sequence.
Last(q) == q[Len(q)]

\* C11: every Write(data) on a capture hands exactly data to the wrapped
\* writer's Write, once, and returns the (n, err) that call returned, a
\* failure included, whatever the channel holds; the channel is not touched.
C11_WriteForwardsAndReturns ==
  [][\A w \in Workers :
       Called(w, "Write") =>
         /\ sink'[w].writes = Append(sink[w].writes, ret'[w][1].data)
         /\ Len(sink'[w].results) = Len(sink[w].results) + 1
         /\ ret'[w][1].n = Last(sink'[w].results).n
         /\ ret'[w][1].err = Last(sink'[w].results).err
         /\ resp'[w].body = resp[w].body \o ret'[w][1].data
         /\ cache' = cache]_vars

\* C11 reached: a Write whose wrapped writer failed returned that failure to
\* the handler while the channel was full.
C11_Witness ==
  \E w \in Workers :
    /\ ret[w] # Nil
    /\ ret[w][1].op = "Write"
    /\ ret[w][1].err
    /\ ret[w][1].n = 0
    /\ Len(cache) = DefaultCacheCapacity

\* C12: the wrapped writer's WriteHeader is called at most once, with the code
\* StatusCode() reports; once a header is committed no WriteHeader or Write
\* changes StatusCode() or reaches the wrapped WriteHeader again; and the code
\* committed is the one of the first call (StatusOK when that call is a Write).
C12_WriteHeaderIdempotent ==
  /\ [](\A w \in Workers :
          /\ Len(sink[w].headers) <= 1
          /\ resp[w].wroteHeader => sink[w].headers = <<resp[w].status>>
          /\ ~resp[w].wroteHeader => sink[w].headers = <<>>)
  /\ [][\A w \in Workers :
          /\ resp[w].wroteHeader =>
               /\ resp'[w].wroteHeader
               /\ resp'[w].status = resp[w].status
               /\ sink'[w].headers = sink[w].headers
          /\ Called(w, "WriteHeader") /\ ~resp[w].wroteHeader =>
               resp'[w].status = ret'[w][1].code
          /\ Called(w, "Write") /\ ~resp[w].wroteHeader =>
               resp'[w].status = StatusOK]_vars

\* C12 reached: a second WriteHeader with another code was ignored.
C12_Witness ==
  \E w \in Workers :
    /\ calls[w] >= 2
    /\ ret[w] # Nil
    /\ ret[w][1].op = "WriteHeader"
    /\ ret[w][1].code # resp[w].status
    /\ sink[w].headers = <<resp[w].status>>

\* C13 as claimed: Hijack and CloseNotify on a capture never crash; on a
\* wrapped writer without the capability the call returns an error, on one
\* with it the call is delegated.
C13_UnsupportedCapabilityIsAnError ==
  \A w \in Workers :
    /\ pc[w] # "panic"
    /\ (ret[w] # Nil /\ ret[w][1].op = "Hijack") =>
         /\ ret[w][1].err <=> ~sink[w].hijacker
         /\ sink[w].hijacker => Last(sink[w].delegated) = "Hijack"
    /\ (ret[w] # Nil /\ ret[w][1].op = "CloseNotify") =>
         /\ sink[w].closeNotifier
         /\ Last(sink[w].delegated) = "CloseNotify"

\* LogRequestObject is over for w's request: it returned or it panicked.
AfterLogRequestObject(w) == pc[w] \in {"handler", "respond", "panic"}

\* The request of w is one workspace enrichment applies to.
WantsWorkspace(w) ==
  /\ ~IsDryRun(req[w])
  /\ req[w].DevOps # ""
  /\ req[w].Workspace = ""

\* C14 as claimed: when the registry's List fails, LogRequestObject on a
\* request with a project id and no workspace does not crash and returns an
\* event whose workspace is empty and whose project id is the request's.
C14_RegistryFailureNotFatal ==
  \A w \in Workers :
    (AfterLogRequestObject(w) /\ WantsWorkspace(w) /\ devops.err) =>
      /\ pc[w] # "panic"
      /\ ev[w] # Nil
      /\ ev[w][1].Workspace = ""
      /\ ev[w][1].Devops = req[w].DevOps

\* The projects of the registry's answer that the project id d names, by name
\* or by admin namespace.
Matching(d) ==
  { i \in 1..Len(devops.res[1]) :
      devops.res[1][i].Name = d \/ devops.res[1][i].AdminNamespace = d }

\* C15 as claimed: after a List that succeeded, the event of a request with a
\* project id and no workspace carries the workspace label and the name of a
\* project that the request's project id names, if there is one; in every
\* other case workspace and project id are the request's.
C15_WorkspaceEnrichment ==
  \A w \in Workers :
    (AfterLogRequestObject(w) /\ ev[w] # Nil /\ ~devops.err) =>
      IF WantsWorkspace(w) /\ Matching(req[w].DevOps) # {}
      THEN \E i \in Matching(req[w].DevOps) :
             /\ ev[w][1].Workspace = devops.res[1][i].Workspace
             /\ ev[w][1].Devops = devops.res[1][i].Name
      ELSE /\ ev[w][1].Workspace = req[w].Workspace
           /\ ev[w][1].Devops = req[w].DevOps

\* LogRequestObject has just returned an event for w's request; the handler
\* has not run yet.
JustBuilt(w) == pc[w] = "handler" /\ ev[w] # Nil

\* ReadAll was called on the stream the request arrived with.
BodyWasRead(w) == body[w].reads > 0 \/ ~body[w].orig

\* The gate as the claim words it.
GateAsClaimed(w) ==
  /\ req[w].ContentLength > 0
  /\ \/ ev[w][1].Level \in {LevelRequest, LevelRequestResponse}
     \/ req[w].Verb = "create"
     \/ req[w].Resource = "users" /\ req[w].Verb = "update"

\* C16: LogRequestObject reads the body iff the content length is positive
\* and the level is Request or higher, or the verb is create, or the request
\* is an update of users; otherwise the stream in req.Body is the one that
\* arrived, unread, and name, verb and RequestObject are as constructed.
C16_BodyReadIffGate ==
  \A w \in Workers :
    JustBuilt(w) =>
      /\ BodyWasRead(w) <=> GateAsClaimed(w)
      /\ ~GateAsClaimed(w) =>
           /\ body[w] = Stream(req[w])
           /\ ev[w][1].ObjectRef.Name = req[w].Name
           /\ ev[w][1].Verb = req[w].Verb
           /\ ev[w][1].RequestObject = Nil

\* C16 reached: below level Request an update of users had its body read, and
\* a buffer stands in req.Body.
C16_Witness ==
  \E w \in Workers :
    /\ JustBuilt(w)
    /\ ev[w][1].Level = LevelMetadata
    /\ req[w].Resource = "users"
    /\ req[w].Verb = "update"
    /\ req[w].ContentLength > 0
    /\ ~body[w].orig

\* The body of w's request arrives whole and is one JSON object.
ObjectBody(w) ==
  /\ req[w].ContentLength > 0
  /\ req[w].failAt = NoError
  /\ Len(req[w].Body) >= 2
  /\ Head(req[w].Body) = LBrace
  /\ Last(req[w].Body) = RBrace

\* The value the one-field object body of w's request gives field k.
BodyField(w, k) ==
  IF Len(req[w].Body) = 3 /\ req[w].Body[2][1] = k THEN req[w].Body[2][2] ELSE ""

C19_ShutdownDoesNotCancel ==
  /\ [][stopCh' # stopCh => UNCHANGED <<workerVars, queueVars>>]_vars
  /\ [](\A w \in Workers :
          pc[w] = "select" =>
            /\ outcome[w] = "none"
            /\ ENABLED cacheEventSend(w) <=> Len(cache) < DefaultCacheCapacity
            /\ ENABLED cacheEventTimeout(w) <=> waited[w] = CacheTimeout)
  /\ \A w \in Workers :
       (stopCh /\ pc[w] = "select") ~>
         (pc[w] = "done" /\ outcome[w] \in {"queued", "dropped"})

\* C19 reached: with stopCh closed and the consumer gone, a call that was
\* blocked on the full channel has returned after its full timeout.
C19_Witness ==
  /\ stopCh
  /\ ~backendUp
  /\ Len(cache) = DefaultCacheCapacity
  /\ \E w \in Workers :
       pc[w] = "done" /\ outcome[w] = "dropped" /\ waited[w] = CacheTimeout

\* C20: the channel never holds more than DefaultCacheCapacity events, with
\* every worker enqueuing at once and whatever the consumer does, a consumer
\* that takes nothing included.
C20_QueueBounded == Len(cache) <= DefaultCacheCapacity

\* C20 reached: the channel is full, nothing was ever taken from it, and a
\* further enqueue is blocked on it.
C20_Witness ==
  /\ Len(cache) = DefaultCacheCapacity
  /\ delivered = <<>>
  /\ \E w \in Workers : pc[w] = "select"

\* Worker w's LogResponseObject reaches cacheEvent in this step.
EnqueueIssued(w) == pc[w] = "response" /\ ev[w] # Nil /\ pc'[w] # "response"

\* C21: a cacheEvent call issued while the channel has room inserts its event
\* at once and returns; a call blocks only on a full channel, time passes for
\* a blocked call only while the channel stays full, and the event is dropped
\* only after the call has waited its whole CacheTimeout that way.
C21_DropOnlyAfterFullInterval ==
  /\ [][\A w \in Workers :
          /\ (EnqueueIssued(w) /\ Len(cache) < DefaultCacheCapacity) =>
               /\ pc'[w] = "done"
               /\ outcome'[w] = "queued"
               /\ cache' = Append(cache, ev'[w][1])
          /\ (EnqueueIssued(w) /\ pc'[w] = "select") =>
               Len(cache) = DefaultCacheCapacity
          /\ waited'[w] > waited[w] =>
               /\ pc[w] = "select"
               /\ Len(cache) = DefaultCacheCapacity
               /\ Len(cache') = DefaultCacheCapacity]_vars
  /\ [](\A w \in Workers : outcome[w] = "dropped" => waited[w] = CacheTimeout)

\* C21 reached: one call found room and inserted at once while another, issued
\* on the full channel, was dropped after its whole timeout.
C21_Witness ==
  /\ \E w \in Workers : outcome[w] = "queued" /\ waited[w] = 0
  /\ \E w \in Workers : outcome[w] = "dropped" /\ waited[w] = CacheTimeout

\* How often the AuditID w occurs in the channel, and among the events the
\* consumer took.
InQueue(w) == Cardinality({i \in 1..Len(cache) : cache[i].AuditID = w})
Dequeued(w) == Cardinality({i \in 1..Len(delivered) : delivered[i] = w})

\* The workers whose event is finalized, whose call dropped it, whose call is
\* still blocked.
FinalizedSet == {w \in Workers : pc[w] \in {"select", "done"}}
DroppedSet == {w \in Workers : outcome[w] = "dropped"}
WaitingSet == {w \in Workers : pc[w] = "select"}

\* 1 for membership, 0 otherwise.
Count(w, S) == IF w \in S THEN 1 ELSE 0

\* C22: under every interleaving of the workers and the consumer, each
\* finalized event is in exactly one place, once: in the channel, with the
\* consumer, dropped, or with a call still blocked; no event is there before
\* it is finalized; hence finalized = queued + dequeued + dropped + waiting,
\* every drop is logged once, and the consumer gets no event twice.
C22_AccountedExactlyOnce ==
  /\ \A w \in Workers :
       InQueue(w) + Dequeued(w) + Count(w, DroppedSet) + Count(w, WaitingSet)
         = Count(w, FinalizedSet)
  /\ Cardinality(FinalizedSet)
       = Len(cache) + Len(delivered) + Cardinality(DroppedSet) + Cardinality(WaitingSet)
  /\ Len(klog) = Cardinality(DroppedSet)
  /\ \A i, j \in 1..Len(delivered) : delivered[i] = delivered[j] => i = j

\* C22 reached: every call has returned; one event is in the channel, one with
\* the consumer and one dropped.
C22_Witness ==
  /\ \A w \in Workers : pc[w] = "done"
  /\ Len(cache) >= 1
  /\ Len(delivered) >= 1
  /\ DroppedSet # {}

C24_HeaderLatch ==
  [][\A w \in Workers :
       /\ resp[w].wroteHeader =>
            resp'[w].wroteHeader /\ resp'[w].status = resp[w].status
       /\ (~resp[w].wroteHeader /\ resp'[w].wroteHeader) =>
            Called(w, "Write") \/ Called(w, "WriteHeader")
       /\ (Called(w, "Write") \/ Called(w, "WriteHeader")) => resp'[w].wroteHeader
       /\ (Called(w, "Bytes") \/ Called(w, "StatusCode")) =>
            resp'[w].wroteHeader = resp[w].wroteHeader]_vars

\* C24 reached: after a header was committed with 404, StatusCode() was called
\* and reports 404.
C24_Witness ==
  \E w \in Workers :
    /\ resp[w].wroteHeader
    /\ resp[w].status = 404
    /\ ret[w] # Nil
    /\ ret[w][1].op = "StatusCode"
    /\ ret[w][1].code = 404

\* C25: the wrapped writer never receives a Write before a WriteHeader; a
\* Write on a capture without committed header commits StatusOK, on the
\* capture and on the wrapped writer, and then forwards; a Write after a
\* committed header leaves the status and calls the wrapped WriteHeader no more.
C25_WriteCommitsOKFirst ==
  /\ [](\A w \in Workers :
          \A i \in 1..Len(sink[w].trace) :
            sink[w].trace[i] = "Write" => i > 1 /\ sink[w].trace[1] = "WriteHeader")
  /\ [][\A w \in Workers :
          Called(w, "Write") =>
            IF resp[w].wroteHeader
            THEN /\ resp'[w].status = resp[w].status
                 /\ sink'[w].headers = sink[w].headers
                 /\ sink'[w].trace = Append(sink[w].trace, "Write")
            ELSE /\ resp'[w].wroteHeader
                 /\ resp'[w].status = StatusOK
                 /\ sink'[w].headers = <<StatusOK>>
                 /\ sink'[w].trace = <<"WriteHeader", "Write">>]_vars

\* C25 reached: a Write followed WriteHeader(404); the status is 404 and the
\* wrapped writer saw one WriteHeader, then the Write.
C25_Witness ==
  \E w \in Workers :
    /\ resp[w].status = 404
    /\ sink[w].headers = <<404>>
    /\ sink[w].trace = <<"WriteHeader", "Write">>
    /\ ret[w] # Nil
    /\ ret[w][1].op = "Write"

\* The concatenation of a sequence of byte sequences.
RECURSIVE Flatten(_)
Flatten(q) == IF q = <<>> THEN <<>> ELSE Head(q) \o Flatten(Tail(q))

\* C26: the buffer of a capture is the concatenation, in call order, of the
\* data of all Write calls, which is what was forwarded to the wrapped writer,
\* whether that writer failed or not; Bytes() returns it, StatusCode() the
\* status, and neither changes the capture or the wrapped writer.
C26_BytesMirrorWrites ==
  /\ [](\A w \in Workers : resp[w].body = Flatten(sink[w].writes))
  /\ [][\A w \in Workers :
          /\ Called(w, "Write") => resp'[w].body = resp[w].body \o ret'[w][1].data
          /\ Called(w, "Bytes") =>
               /\ ret'[w][1].data = resp[w].body
               /\ resp'[w] = resp[w]
               /\ sink'[w] = sink[w]
          /\ Called(w, "StatusCode") =>
               /\ ret'[w][1].code = resp[w].status
               /\ resp'[w] = resp[w]
               /\ sink'[w] = sink[w]]_vars

\* C26 reached: Bytes() returned the data of a Write the wrapped writer had
\* failed.
C26_Witness ==
  \E w \in Workers :
    /\ ret[w] # Nil
    /\ ret[w][1].op = "Bytes"
    /\ ret[w][1].data = <<"r2">>
    /\ sink[w].writes = <<<<"r2">>>>
    /\ sink[w].results[1].err

\* The gate fires for w's request at the level the lister gives.
GateFires(w) ==
  /\ req[w].ContentLength > 0
  /\ \/ getAuditLevel \in {LevelRequest, LevelRequestResponse}
     \/ req[w].Verb = "create"
     \/ req[w].Resource = "users" /\ req[w].Verb = "update"

\* The body of w's request is a JSON object from first to last token.
IsObject(w) ==
  /\ Len(req[w].Body) >= 2
  /\ Head(req[w].Body) = LBrace
  /\ Last(req[w].Body) = RBrace

\* C27: when the gate fires and the body, read without error, does not
\* decode, LogRequestObject does not panic and returns an event whose
\* ObjectRef.Name and verb are the request info's.
C27_DecodeFailureKeepsEvent ==
  \A w \in Workers :
    ( /\ AfterLogRequestObject(w)
      /\ ~IsDryRun(req[w])
      /\ GateFires(w)
      /\ req[w].failAt = NoError
      /\ ~IsObject(w) ) =>
        /\ pc[w] # "panic"
        /\ ev[w] # Nil
        /\ ev[w][1].ObjectRef.Name = req[w].Name
        /\ ev[w][1].Verb = req[w].Verb

\* C27 reached: the create of bob with a truncated body was read (a buffer
\* stands in req.Body) and the event is bob's create.
C27_Witness ==
  \E w \in Workers :
    /\ JustBuilt(w)
    /\ req[w].Verb = "create"
    /\ req[w].Name = "bob"
    /\ req[w].ContentLength = 2
    /\ ~IsObject(w)
    /\ ~body[w].orig
    /\ ev[w][1].ObjectRef.Name = "bob"
    /\ ev[w][1].Verb = "create"

\* C28 as claimed: for a create request the event's name differs from the
\* request info's only when the body decodes to an object with a non-empty
\* name; a non-empty name is never replaced by an empty one.
C28_NameNeverEmptied ==
  \A w \in Workers :
    (Returned(w) /\ ev[w] # Nil /\ req[w].Verb = "create"
       /\ ev[w][1].ObjectRef.Name # req[w].Name) =>
      /\ IsObject(w)
      /\ BodyField(w, "name") # ""
      /\ ev[w][1].ObjectRef.Name # ""

\* The lists holding the projects of l in some order.
Orderings(l) ==
  { m \in [1..Len(l) -> {l[i] : i \in 1..Len(l)}] :
      \A i \in 1..Len(l) : \E j \in 1..Len(l) : m[j] = l[i] }

\* C29 as claimed: after a List that succeeded, the event's project id is the
\* request's or the name of a project whose admin namespace is the request's
\* id, the workspace is that project's label, and every ordering of the list
\* gives the same project id and workspace.
C29_OneAliasStepAnyOrder ==
  \A w \in Workers :
    (AfterLogRequestObject(w) /\ ev[w] # Nil /\ WantsWorkspace(w) /\ ~devops.err) =>
      LET l == devops.res[1]
          e == ev[w][1]
          d == req[w].DevOps
      IN  /\ \/ /\ e.Devops = d
                /\ \/ \E i \in 1..Len(l) : l[i].Name = d /\ e.Workspace = l[i].Workspace
                   \/ Matching(d) = {} /\ e.Workspace = ""
             \/ \E i \in 1..Len(l) :
                  /\ l[i].AdminNamespace = d
                  /\ e.Devops = l[i].Name
                  /\ e.Workspace = l[i].Workspace
          /\ \A m \in Orderings(l) :
               LET o == EnrichLoop(NewEvent(w, req[w], getAuditLevel), m)
               IN  o.Devops = e.Devops /\ o.Workspace = e.Workspace

\* The resource names registered in each map.
ClusterNames == {k.Resource : k \in clusterResourceGetters}
NamespacedNames == {k.Resource : k \in namespacedResourceGetters}

\* C30: a Get or List ends with ErrResourceNotSupported exactly when no getter
\* of the applicable scope has the resource name; with an empty namespace a
\* cluster-scoped getter of that name is taken before a namespaced one, with
\* a namespace only a namespaced getter is taken; the getter found is called
\* with the namespace and the name or query as given.
C30_NotSupportedIffNoGetter ==
  lookup # Nil =>
    LET l == lookup[1]
        applicable == IF l.namespace = "" THEN ClusterNames \cup NamespacedNames
                      ELSE NamespacedNames
    IN  /\ l.err = ErrResourceNotSupported <=> l.resource \notin applicable
        /\ l.err = ErrResourceNotSupported => l.getter = Nil /\ l.passed = <<>>
        /\ l.err # ErrResourceNotSupported =>
             /\ l.err = ""
             /\ l.getter # Nil
             /\ l.getter[1].key.Resource = l.resource
             /\ l.getter[1].scope = "cluster" =>
                  l.namespace = "" /\ l.getter[1].key \in clusterResourceGetters
             /\ l.getter[1].scope = "namespaced" =>
                  /\ l.getter[1].key \in namespacedResourceGetters
                  /\ l.namespace = "" => l.resource \notin ClusterNames
             /\ l.passed = <<l.namespace, l.arg>>

\* C30 reached: a resource with a cluster-scoped getter only was asked for in
\* a namespace and is not supported.
C30_Witness ==
  /\ lookup # Nil
  /\ lookup[1].namespace = "ns1"
  /\ lookup[1].resource \in ClusterNames \ NamespacedNames
  /\ lookup[1].err = ErrResourceNotSupported

(***************************************************************************)
(* C31                                                                     *)
(***************************************************************************)
\* A repository carries no secrets: no Status.Data and no Spec.Credential.
NoSecrets(repo) ==
  /\ repo.Status.Data = ""
  /\ repo.Spec.Credential = EmptyCredential

\* C31: no HelmRepo returned through RepoInterface exposes secrets: every
\* item of a successful ListRepos result and the result of a successful
\* DescribeRepo has an empty Status.Data and an empty Spec.Credential; and
\* when the reposGetter fails, the operation returns the getter's error and
\* no repository.
C31_NoSecretsReturned ==
  repoResult # Nil =>
    LET r == repoResult[1]
    IN  /\ r.list # Nil =>
             \A i \in 1..Len(r.list[1].Items) : NoSecrets(r.list[1].Items[i])
        /\ r.repo # Nil => NoSecrets(r.repo[1])
        /\ r.getterErr # Nil =>
             /\ r.err = r.getterErr
             /\ r.repo = Nil
             /\ r.list = Nil

=============================================================================
